---- MODULE Spec2Model ----
(***************************************************************************)
(* Verification model of CGH_NeuroMod: the hologram computation core      *)
(* (computations/cgh_pattern_generator.py) and the executor that runs it  *)
(* on a background worker (executor.py, run_threads.py).                   *)
(*                                                                         *)
(* Number representation.  The code works on float arrays; the model uses *)
(* exact integer arithmetic on a scaled-down grid:                        *)
(*   - a phase is an integer number of phase units, TwoPi units = 2*pi;   *)
(*   - a complex number is a Gaussian integer <<re, im>>; with TwoPi = 4  *)
(*     exp(1j*phase) and the DFT twiddle factors of sizes 1, 2, 4 are     *)
(*     exact;                                                             *)
(*   - SLM coordinates are kept doubled (unit pitch/2), so the half-pixel *)
(*     offsets of slm_coordinates are odd integers;                       *)
(*   - the sample-plane unit is the displacement that tilts the phase by  *)
(*     one phase unit per half pitch, so k*x0*x_pupil/f_obj is x0*X;      *)
(*     in that unit the FFT bin m of a size-n axis lies at TwoPi*m/(2n);  *)
(*   - NaN is the float not-a-number (division by zero in numpy).         *)
(***************************************************************************)
EXTENDS Integers, Sequences, FiniteSets, TLC

slm_nx == 4
slm_ny == 2
TwoPi == 4
correction_value == 137
pixel_size_cam == 2
GS_ITERS == 128
NaN == 0 - 9999

Abs(x) == IF x < 0 THEN 0 - x ELSE x
Max2(a, b) == IF a >= b THEN a ELSE b

\* Python / numpy floor division and modulo for a nonzero divisor of either sign
FloorDiv(a, b) == IF b > 0 THEN a \div b ELSE (0 - a) \div (0 - b)
PyMod(a, b) == a - b * FloorDiv(a, b)

(***************************************************************************)
(* numpy arrays: [shape |-> <<h, w>>, dtype, data |-> [index -> value]]    *)
(***************************************************************************)
\* the array f, tabulated (TLC evaluates [c \in S |-> e] lazily, cell by cell)
Eager(f) == f @@ <<>>
Idx(shape) == (0 .. shape[1] - 1) \X (0 .. shape[2] - 1)
Arr(shape, dtype, F(_)) == [shape |-> shape, dtype |-> dtype, data |-> Eager([c \in Idx(shape) |-> F(c)])]
GridShape == <<slm_ny, slm_nx>>
Grid == Idx(GridShape)

\* np.mod(x, 2*pi) and x % (2*pi) on floats: nan stays nan
ModTwoPi(x) == IF x = NaN THEN NaN ELSE PyMod(x, TwoPi)
\* float addition
FAdd(x, y) == IF x = NaN \/ y = NaN THEN NaN ELSE x + y

\* complex arithmetic on Gaussian integers
CAdd(z, w) == <<z[1] + w[1], z[2] + w[2]>>
CMul(z, w) == <<z[1] * w[1] - z[2] * w[2], z[1] * w[2] + z[2] * w[1]>>
CScale(a, z) == <<a * z[1], a * z[2]>>
\* np.exp(1j * phase), phase in phase units
CExp(p) == LET q == PyMod(p, TwoPi)
           IN  CASE q = 0 -> <<1, 0>> [] q = 1 -> <<0, 1>> [] q = 2 -> <<0 - 1, 0>> [] OTHER -> <<0, 0 - 1>>
\* np.angle(z) in (-pi, pi], rounded to the nearest phase unit (a tie goes to
\* the real axis); np.angle(0) = 0
Angle(z) == IF z[1] = 0 /\ z[2] = 0 THEN 0
            ELSE IF Abs(z[2]) <= Abs(z[1]) THEN (IF z[1] > 0 THEN 0 ELSE TwoPi \div 2)
            ELSE (IF z[2] > 0 THEN TwoPi \div 4 ELSE 0 - (TwoPi \div 4))

(***************************************************************************)
(* SLMDevice.slm_coordinates: doubled coordinates 2*(j - n/2 + 0.5)        *)
(***************************************************************************)
slm_x(j) == 2 * j - slm_nx + 1
slm_y(i) == 2 * i - slm_ny + 1
slm_r2(c) == slm_y(c[1]) * slm_y(c[1]) + slm_x(c[2]) * slm_x(c[2])

(***************************************************************************)
(* MicroscopeSLMSystem: pupil radius.  NA_obj and n_medium are in 1/100;   *)
(* f_obj2 is f_obj^2 in half-pitch units.  na_rel is the rational          *)
(* <<numerator, denominator>>.                                             *)
(***************************************************************************)
n_medium == 133
f_obj2 == 8
pupil_mag == 1
\* lines 65-67 for a system with medium index n
na_rel_of_unclamped(NA, n) == <<NA, n>>
na_rel_of(NA, n) == IF NA >= n THEN <<999999, 1000000>> ELSE <<NA, n>>
na_rel(NA) == na_rel_of(NA, n_medium)
\* r^2 <= pupil_radius_slm^2, with pupil_radius_obj = f*na_rel/sqrt(1 - na_rel^2),
\* compared exactly: r2 * (den^2 - num^2) <= f_obj^2 * num^2 * pupil_mag^2, which
\* is a <= b * num for a == r2 * (den - num) * (den + num), b == f_obj^2 * num *
\* pupil_mag^2, that is ceil(a / b) <= num (b > 0), or a <= 0 when b = 0
InPupil(r2, NA) ==
    LET r == na_rel(NA)
        a == r2 * (r[2] - r[1]) * (r[2] + r[1])
        b == f_obj2 * r[1] * pupil_mag * pupil_mag
    IN  IF b = 0 THEN a <= 0 ELSE 0 - FloorDiv(0 - a, b) <= r[1]
pupil_mask_open(NA) == Eager([c \in Grid |-> 1])
pupil_mask(NA) == Eager([c \in Grid |-> IF InPupil(slm_r2(c), NA) THEN 1 ELSE 0])

(***************************************************************************)
(* ImagingGeometry.pixels_to_sample.  geom = [mag_total, u0, v0]; flips    *)
(* are +1.  Returns [raised, x0, y0]; float division by mag_total = 0.0    *)
(* raises ZeroDivisionError.  Model magnifications divide pixel_size_cam.  *)
(***************************************************************************)
flip_x == 1
flip_y == 1
pixels_to_sample(geom, u, v) ==
    IF geom.mag_total = 0 THEN [raised |-> TRUE, x0 |-> 0, y0 |-> 0]
    ELSE [raised |-> FALSE,
          x0 |-> flip_x * (((u - geom.u0) * pixel_size_cam) \div geom.mag_total),
          y0 |-> flip_y * (((v - geom.v0) * pixel_size_cam) \div geom.mag_total)]

\* sum of F(0) .. F(n-1) over complex numbers
RECURSIVE CSumSeq(_)
CSumSeq(s) == IF Len(s) = 0 THEN <<0, 0>> ELSE CAdd(Head(s), CSumSeq(Tail(s)))
CSum(n, F(_)) == CSumSeq([m \in 1 .. n |-> F(m - 1)])
\* sum of F(1) .. F(n) over integers
RECURSIVE ISumSeq(_)
ISumSeq(s) == IF Len(s) = 0 THEN 0 ELSE Head(s) + ISumSeq(Tail(s))
ISum(n, F(_)) == ISumSeq([m \in 1 .. n |-> F(m)])

(***************************************************************************)
(* CGH.generate_cgh(spots_sample, weights=None, include_defocus)           *)
(* spots_sample: sequence of <<x0, y0, z0>>.  Returns the complex field    *)
(* before angle extraction and the wrapped phase.                          *)
(***************************************************************************)
\* k / (2 f_obj^2) per unit z0 and squared half pitch, in phase units
defocus_k == 1
cgh_phi(spot, c, include_defocus) ==
    LET x_pupil == slm_x(c[2]) \div pupil_mag
        y_pupil == slm_y(c[1]) \div pupil_mag
        r2_pupil == x_pupil * x_pupil + y_pupil * y_pupil
        phi == spot[1] * x_pupil + spot[2] * y_pupil
    IN  IF include_defocus /\ Abs(spot[3]) > 0
        THEN phi + (0 - defocus_k * spot[3] * r2_pupil)
        ELSE phi
cgh_field(spots_sample, include_defocus, NA) ==
    [c \in Grid |->
        CScale(pupil_mask(NA)[c],
               CSum(Len(spots_sample), LAMBDA m : CExp(cgh_phi(spots_sample[m + 1], c, include_defocus))))]
generate_cgh(spots_sample, include_defocus, NA) ==
    LET field == Eager(cgh_field(spots_sample, include_defocus, NA))
    IN  Arr(GridShape, "float64", LAMBDA c : PyMod(Angle(field[c]) + TwoPi, TwoPi))
\* the same with weights given (a sequence of complex numbers): zip stops at
\* the shorter of the two lists
Min2(a, b) == IF a <= b THEN a ELSE b
cgh_field_weighted(spots_sample, weights, include_defocus, NA) ==
    [c \in Grid |->
        CScale(pupil_mask(NA)[c],
               CSum(Min2(Len(spots_sample), Len(weights)),
                    LAMBDA m : CMul(weights[m + 1], CExp(cgh_phi(spots_sample[m + 1], c, include_defocus)))))]
cgh_angle(field) == Arr(GridShape, "float64", LAMBDA c : PyMod(Angle(field[c]) + TwoPi, TwoPi))

(***************************************************************************)
(* CGH.sample_plane_coordinates_fft_grid: np.fft.fftshift(np.fft.fftfreq)  *)
(* puts bin j - n//2 at index j; doubled sample coordinate TwoPi*bin/n.    *)
(***************************************************************************)
fft_bin(j, n) == j - n \div 2
sample_x(j) == (TwoPi * fft_bin(j, slm_nx)) \div slm_nx
sample_y(i) == (TwoPi * fft_bin(i, slm_ny)) \div slm_ny
\* (Xs - x0)^2 + (Ys - y0)^2 in doubled units
dist2(c, spot) == (sample_x(c[2]) - 2 * spot[1]) * (sample_x(c[2]) - 2 * spot[1])
                  + (sample_y(c[1]) - 2 * spot[2]) * (sample_y(c[1]) - 2 * spot[2])

(***************************************************************************)
(* CGH.build_target_amp_from_spots(spots_sample, sigma, amp_per_spot).     *)
(* Amplitudes are fixed-point with amp_one = 1.0.  sigma is "None" or      *)
(* "sigma_spot" (0.1e-6 m, about 0.37 bin): gauss is exp(-d^2/(2 sigma^2)).*)
(***************************************************************************)
amp_one == 64
gauss(d2) == CASE d2 = 0 -> amp_one [] d2 = 1 -> 2 [] OTHER -> 0
\* np.argmin: the first minimum in row-major order
RowMajor(c) == c[1] * slm_nx + c[2]
argmin_dist2(spot) ==
    CHOOSE c \in Grid : \A d \in Grid :
        \/ dist2(c, spot) < dist2(d, spot)
        \/ dist2(c, spot) = dist2(d, spot) /\ RowMajor(c) <= RowMajor(d)
target_accum_overwrite(spots_sample, sigma, amp_per_spot) ==
    [c \in Grid |->
        LET contrib(m) == IF sigma = "None"
                          THEN (IF argmin_dist2(spots_sample[m]) = c THEN amp_per_spot * amp_one ELSE 0)
                          ELSE amp_per_spot * gauss(dist2(c, spots_sample[m]))
            hits == { m \in 1 .. Len(spots_sample) : contrib(m) # 0 }
        IN  IF hits = {} THEN 0 ELSE contrib(CHOOSE m \in hits : \A k \in hits : k <= m)]
target_accum(spots_sample, sigma, amp_per_spot) ==
    [c \in Grid |->
        ISum(Len(spots_sample), LAMBDA m :
            IF sigma = "None"
            THEN (IF argmin_dist2(spots_sample[m]) = c THEN amp_per_spot * amp_one ELSE 0)
            ELSE amp_per_spot * gauss(dist2(c, spots_sample[m])))]
ArrMax(f) == CHOOSE v \in {f[c] : c \in DOMAIN f} : \A c \in DOMAIN f : f[c] <= v
build_target_amp_from_spots(spots_sample, sigma, amp_per_spot) ==
    LET target_amp == Eager(target_accum(spots_sample, sigma, amp_per_spot))
        max_val == ArrMax(target_amp)
    IN  Arr(GridShape, "float32",
            LAMBDA c : IF max_val > 0 THEN (target_amp[c] * amp_one) \div max_val ELSE target_amp[c])

(***************************************************************************)
(* np.fft: fft2, ifft2 (times ny*nx: only its angle is used), fftshift,    *)
(* ifftshift on fields over the grid.  The axis sizes divide TwoPi.        *)
(***************************************************************************)
Twiddle(n, m) == CExp(0 - (TwoPi \div n) * m)
TwiddleInv(n, m) == CExp((TwoPi \div n) * m)
fft2(f) ==
    LET rows == Eager([c \in Grid |-> CSum(slm_nx, LAMBDA j : CMul(f[<<c[1], j>>], Twiddle(slm_nx, c[2] * j)))])
    IN  [c \in Grid |-> CSum(slm_ny, LAMBDA i : CMul(rows[<<i, c[2]>>], Twiddle(slm_ny, c[1] * i)))]
ifft2(f) ==
    LET rows == Eager([c \in Grid |-> CSum(slm_nx, LAMBDA j : CMul(f[<<c[1], j>>], TwiddleInv(slm_nx, c[2] * j)))])
    IN  [c \in Grid |-> CSum(slm_ny, LAMBDA i : CMul(rows[<<i, c[2]>>], TwiddleInv(slm_ny, c[1] * i)))]
fftshift(f) == [c \in Grid |-> f[<<(c[1] - slm_ny \div 2) % slm_ny, (c[2] - slm_nx \div 2) % slm_nx>>]]
ifftshift(f) == [c \in Grid |-> f[<<(c[1] + slm_ny \div 2) % slm_ny, (c[2] + slm_nx \div 2) % slm_nx>>]]

(***************************************************************************)
(* CGH.gerchberg_saxton_with_target(target_amp, n_iters, phase_init,       *)
(* use_pupil_mask).  phase_init = None draws 2*pi*np.random.rand: rnd is   *)
(* the value drawn.  The steps are separate operators, in source order.    *)
(***************************************************************************)
None == [shape |-> <<0, 0>>, dtype |-> "None", data |-> <<>>]
\* a check that lets every target pass
gs_shape_unchecked(target_amp) == TRUE
\* line 319: assert target_amp.shape == (ny, nx)
gs_shape_ok(target_amp) == target_amp.shape = GridShape
\* lines 321-326
gs_pupil_mask(use_pupil_mask, NA) == IF use_pupil_mask THEN pupil_mask(NA) ELSE [c \in Grid |-> 1]
\* an initialisation that ignores the seed
gs_phase_init_random(phase_init, rnd) == rnd
\* lines 328-331
gs_phase_init(phase_init, rnd) ==
    IF phase_init = None THEN rnd ELSE [c \in Grid |-> ModTwoPi(phase_init.data[c])]
\* lines 333, 346: np.exp(1j * phase_slm) * pupil_mask
gs_field_slm(phase_slm, mask) == [c \in Grid |-> CScale(mask[c], CExp(phase_slm[c]))]
\* lines 336-337
gs_forward(field_slm) == fftshift(fft2(field_slm))
\* lines 339-340
gs_replace(field_focal, target_amp) ==
    [c \in Grid |-> CScale(target_amp.data[c], CExp(Angle(field_focal[c])))]
\* lines 342-343
gs_inverse(field_focal) == ifft2(ifftshift(field_focal))
\* line 345
gs_angle(field_slm) == [c \in Grid |-> Angle(field_slm[c])]
\* one pass of the loop body, lines 336-346, on st = [phase_slm, field_slm]
gs_round(st, target_amp, mask) ==
    LET field_focal == Eager(gs_forward(st.field_slm))
        replaced == Eager(gs_replace(field_focal, target_amp))
        phase_slm == Eager(gs_angle(gs_inverse(replaced)))
    IN  [phase_slm |-> phase_slm, field_slm |-> Eager(gs_field_slm(phase_slm, mask))]
\* for _ in range(n_iters): n passes of gs_round, one after the other.  They
\* are evaluated in two halves, and passes that must repeat are not evaluated
\* again: fixed = TRUE says that a pass leaves st as it is, and a first half
\* that leads back to its start makes an equally long second half do the same.
RECURSIVE gs_passes(_, _, _, _)
gs_passes(st, target_amp, mask, n) ==
    IF n = 1
    THEN LET next_st == gs_round(st, target_amp, mask)
         IN  [st |-> next_st, fixed |-> next_st = st]
    ELSE LET half == n \div 2
             first == gs_passes(st, target_amp, mask, half)
         IN  IF first.fixed THEN first
             ELSE IF first.st = st /\ n - half = half THEN first
             ELSE gs_passes(first.st, target_amp, mask, n - half)
gs_loop(st, target_amp, mask, n) ==
    IF n <= 0 THEN st ELSE gs_passes(st, target_amp, mask, n).st
\* line 348
gs_wrap(phase_slm) == [c \in Grid |-> PyMod(phase_slm[c] + TwoPi, TwoPi)]
gerchberg_saxton_with_target(target_amp, n_iters, phase_init, use_pupil_mask, NA, rnd) ==
    IF ~gs_shape_ok(target_amp) THEN [raised |-> TRUE, phase |-> None]
    ELSE LET mask == Eager(gs_pupil_mask(use_pupil_mask, NA))
             phase0 == Eager(gs_phase_init(phase_init, rnd))
             st == gs_loop([phase_slm |-> phase0, field_slm |-> gs_field_slm(phase0, mask)],
                           target_amp, mask, n_iters)
             phase_slm == Eager(gs_wrap(st.phase_slm))
         IN  [raised |-> FALSE, phase |-> Arr(GridShape, "float64", LAMBDA c : phase_slm[c])]

(***************************************************************************)
(* CGH.generate_fresnel_lens_phase: phi = -k (X^2 + Y^2) / (2 f_fresnel),  *)
(* lens_k = k * (pitch/2)^2 in phase units; f_fresnel = 0.0 divides a      *)
(* negative array by zero (-inf), and np.mod(-inf, 2 pi) is nan.           *)
(***************************************************************************)
lens_k == 1
lens_phi(c, f_fresnel) ==
    IF f_fresnel = 0 THEN NaN ELSE FloorDiv(0 - lens_k * slm_r2(c), 2 * f_fresnel)
generate_fresnel_lens_phase(f_fresnel) ==
    Arr(GridShape, "float64", LAMBDA c : ModTwoPi(lens_phi(c, f_fresnel)))

(***************************************************************************)
(* phase_to_uint(phase_0_2pi, levels): np.round (half to even) of          *)
(* levels * phase / (2 pi), then .astype(np.uint8).  The float -> uint8    *)
(* cast of a value outside 0..255 is undefined in C: a build reduces it    *)
(* modulo 256 ("wrap") or saturates it ("sat"); nan converts to 0.         *)
(***************************************************************************)
Casts == {"wrap", "sat"}
RoundHalfEven(num, den) ==
    LET q == num \div den
        r == num % den
    IN  IF 2 * r < den THEN q
        ELSE IF 2 * r > den THEN q + 1
        ELSE IF q % 2 = 0 THEN q ELSE q + 1
\* a quantizer that truncates
np_round_level_trunc(phase, levels) == IF phase = NaN THEN NaN ELSE (levels * phase) \div TwoPi
np_round_level(phase, levels) == IF phase = NaN THEN NaN ELSE RoundHalfEven(levels * phase, TwoPi)
astype_uint8(v, cast) ==
    IF v = NaN THEN 0
    ELSE IF v >= 0 /\ v <= 255 THEN v
    ELSE IF cast = "wrap" THEN v % 256
    ELSE IF v < 0 THEN 0 ELSE 255
phase_to_uint(phase_0_2pi, levels, cast) ==
    Arr(phase_0_2pi.shape, "uint8",
        LAMBDA c : astype_uint8(np_round_level(phase_0_2pi.data[c], levels), cast))

(***************************************************************************)
(* numpy elementwise a + b on 2-D arrays: shapes broadcast (an axis of     *)
(* length 1 stretches), else ValueError; uint8 + uint8 stays uint8 and     *)
(* wraps at 256, any other pair of dtypes is added in the wider type.      *)
(***************************************************************************)
Broadcastable(sa, sb) == \A k \in 1 .. 2 : sa[k] = sb[k] \/ sa[k] = 1 \/ sb[k] = 1
BroadcastShape(sa, sb) == <<Max2(sa[1], sb[1]), Max2(sa[2], sb[2])>>
BIdx(c, shape) == <<IF shape[1] = 1 THEN 0 ELSE c[1], IF shape[2] = 1 THEN 0 ELSE c[2]>>
\* an addition that saturates at 255
np_add_saturating(a, b) ==
    IF ~Broadcastable(a.shape, b.shape) THEN [raised |-> TRUE, arr |-> None]
    ELSE [raised |-> FALSE,
          arr |-> Arr(BroadcastShape(a.shape, b.shape), "uint8",
                      LAMBDA c : LET sum == a.data[BIdx(c, a.shape)] + b.data[BIdx(c, b.shape)]
                                 IN  IF sum > 255 THEN 255 ELSE sum)]
np_add(a, b) ==
    IF ~Broadcastable(a.shape, b.shape) THEN [raised |-> TRUE, arr |-> None]
    ELSE [raised |-> FALSE,
          arr |-> Arr(BroadcastShape(a.shape, b.shape),
                      IF a.dtype = "uint8" /\ b.dtype = "uint8" THEN "uint8" ELSE "float64",
                      LAMBDA c : LET x == a.data[BIdx(c, a.shape)]
                                     y == b.data[BIdx(c, b.shape)]
                                 IN  IF a.dtype = "uint8" /\ b.dtype = "uint8"
                                     THEN (x + y) % 256 ELSE x + y)]

(***************************************************************************)
(* CGH.compute_cgh, statement by statement.  cgh is the CGH object:        *)
(* [spots_xy, itn, geom, f_fresnel, NA_obj, correction_pattern,            *)
(*  phase_spots, phase_total, phase_slm]; spots_xy = [is_none, pts].       *)
(***************************************************************************)
\* lines 165-168; iterating None raises TypeError
RECURSIVE cc_convert(_, _)
cc_convert(pts, geom) ==
    IF Len(pts) = 0 THEN [raised |-> FALSE, spots_sample |-> <<>>]
    ELSE LET p == pixels_to_sample(geom, Head(pts)[1], Head(pts)[2])
             rest == cc_convert(Tail(pts), geom)
         IN  IF p.raised \/ rest.raised THEN [raised |-> TRUE, spots_sample |-> <<>>]
             ELSE [raised |-> FALSE, spots_sample |-> <<<<p.x0, p.y0, 0>>>> \o rest.spots_sample]
cc_spots_sample(spots_xy, geom) ==
    IF spots_xy.is_none THEN [raised |-> TRUE, spots_sample |-> <<>>]
    ELSE cc_convert(spots_xy.pts, geom)
\* lines 169-173: the value assigned to self.phase_spots
cc_phase_spots(spots_sample, NA) ==
    LET phase_init == generate_cgh(spots_sample, FALSE, NA)
        target_amp == build_target_amp_from_spots(spots_sample, "sigma_spot", 1)
    IN  gerchberg_saxton_with_target(target_amp, GS_ITERS, phase_init, TRUE, NA, <<>>)
\* a sum that is quantized without being wrapped
cc_phase_total_unwrapped(phase_spots, f_fresnel) ==
    Arr(GridShape, "float64",
        LAMBDA c : FAdd(phase_spots.data[c], generate_fresnel_lens_phase(f_fresnel).data[c]))
\* lines 174-175: the value assigned to self.phase_total
cc_phase_total(phase_spots, f_fresnel) ==
    LET phase_fresnel_lens == generate_fresnel_lens_phase(f_fresnel)
    IN  Arr(GridShape, "float64",
            LAMBDA c : ModTwoPi(FAdd(phase_spots.data[c], phase_fresnel_lens.data[c])))
\* line 176: the value assigned to self.phase_slm
cc_phase_slm(correction_pattern, phase_total, cast) ==
    np_add(correction_pattern, phase_to_uint(phase_total, correction_value, cast))

\* compute_cgh as one call: [raised, cgh]; an exception leaves the attributes
\* assigned before it.  Each operator is the rest of the method from the named
\* line on, given the value the line before it produced.
cc_store_phase_slm(c, sl) ==
    IF sl.raised THEN [raised |-> TRUE, cgh |-> c]
    ELSE [raised |-> FALSE, cgh |-> [c EXCEPT !.phase_slm = sl.arr]]
cc_from_176(c, cast) ==
    cc_store_phase_slm(c, cc_phase_slm(c.correction_pattern, c.phase_total, cast))
cc_from_174(c, cast) ==
    cc_from_176([c EXCEPT !.phase_total = cc_phase_total(c.phase_spots, c.f_fresnel)], cast)
cc_store_phase_spots(c, ps, cast) ==
    IF ps.raised THEN [raised |-> TRUE, cgh |-> c]
    ELSE cc_from_174([c EXCEPT !.phase_spots = ps.phase], cast)
cc_from_169(c, ss, cast) ==
    IF ss.raised THEN [raised |-> TRUE, cgh |-> c]
    ELSE cc_store_phase_spots(c, cc_phase_spots(ss.spots_sample, c.NA_obj), cast)
compute_cgh(c, cast) == cc_from_169(c, cc_spots_sample(c.spots_xy, c.geom), cast)

\* CGH.update_parameters(itn, mag, fl, cnt)
update_parameters(c, itn, mag, fl, cnt) ==
    [c EXCEPT !.itn = itn, !.geom = [mag_total |-> mag, u0 |-> cnt[1], v0 |-> cnt[2]], !.f_fresnel = fl]
\* CGH.load_spots_picked(spots_picked)
load_spots_picked(c, spots_picked) == [c EXCEPT !.spots_xy = [is_none |-> FALSE, pts |-> spots_picked]]

(***************************************************************************)
(* CGH.load_correction_pattern(file): Image.open raises for a file that is *)
(* no image; np.array(image, dtype=np.uint8) has the image's own shape.    *)
(***************************************************************************)
Files == {"missing", "ramp", "row", "tall"}
RampBytes == <<255, 200, 10, 0, 153, 222, 1, 128>>
FileImage(file) ==
    CASE file = "ramp" -> Arr(GridShape, "uint8", LAMBDA c : RampBytes[(RowMajor(c) % 8) + 1])
      [] file = "row" -> Arr(<<1, slm_nx>>, "uint8", LAMBDA c : 250 + c[2])
      [] file = "tall" -> Arr(<<slm_nx + 1, slm_ny>>, "uint8", LAMBDA c : 7)
      [] OTHER -> None
load_correction_pattern(c, file) ==
    IF file = "missing" THEN [raised |-> TRUE, cgh |-> c]
    ELSE [raised |-> FALSE, cgh |-> [c EXCEPT !.correction_pattern = FileImage(file)]]

(***************************************************************************)
(* CGH.__init__                                                            *)
(***************************************************************************)
NA_obj_init == 100
mag_total_init == 2
u0_init == 1
v0_init == 1
f_fresnel_init == 1
itn_init == 64
NoSpots == [is_none |-> TRUE, pts |-> <<>>]
CGHInit ==
    [spots_xy |-> NoSpots, itn |-> itn_init,
     geom |-> [mag_total |-> mag_total_init, u0 |-> u0_init, v0 |-> v0_init],
     f_fresnel |-> f_fresnel_init, NA_obj |-> NA_obj_init,
     correction_pattern |-> Arr(GridShape, "uint8", LAMBDA c : 0),
     phase_spots |-> None, phase_total |-> None, phase_slm |-> None]

(***************************************************************************)
(* ImgViewer (gui/image_viewer.py).  The widget is [picking_enabled,        *)
(* target_img, target_points]; a handler returns [obj, emit, pts], emit     *)
(* telling whether spots_picked was emitted, with pts.  View coordinates    *)
(* are in quarters of a pixel.                                              *)
(***************************************************************************)
ImgViewerInit == [picking_enabled |-> FALSE, target_img |-> None, target_points |-> <<>>]
NoEmit(v) == [obj |-> v, emit |-> FALSE, pts |-> <<>>]
set_target_image(v, img2d) == [v EXCEPT !.target_img = img2d]
start_target_picking_kept(v) == [v EXCEPT !.picking_enabled = TRUE]
start_target_picking(v) == [v EXCEPT !.picking_enabled = TRUE, !.target_points = <<>>]
finish_target_picking(v) ==
    [obj |-> [v EXCEPT !.picking_enabled = FALSE], emit |-> TRUE, pts |-> v.target_points]
cancel_target_picking(v) == NoEmit([v EXCEPT !.picking_enabled = FALSE])
\* int(round(x)) for x = x4 / 4: Python rounds a tie to the even integer
py_round(x4) ==
    LET lo == FloorDiv(x4, 4)
        r == x4 - 4 * lo
    IN  IF r < 2 THEN lo
        ELSE IF r > 2 THEN lo + 1
        ELSE IF lo % 2 = 0 THEN lo ELSE lo + 1
\* ev = [button, in_view, x, y]: in_view is vb.sceneBoundingRect().contains(...)
on_target_mouse_clicked(v, ev) ==
    IF ~v.picking_enabled \/ v.target_img = None THEN NoEmit(v)
    ELSE IF ev.button = "RightButton" THEN finish_target_picking(v)
    ELSE IF ev.button # "LeftButton" THEN NoEmit(v)
    ELSE IF ~ev.in_view THEN NoEmit(v)
    ELSE LET h == v.target_img.shape[1]
             w == v.target_img.shape[2]
         IN  IF ~(0 <= ev.x /\ ev.x < 4 * w /\ 0 <= ev.y /\ ev.y < 4 * h) THEN NoEmit(v)
             ELSE NoEmit([v EXCEPT !.target_points = Append(@, <<py_round(ev.x), py_round(ev.y)>>)])
\* a KeyPress event of target_plot
eventFilter(v, key) ==
    IF ~v.picking_enabled THEN NoEmit(v)
    ELSE IF key \in {"Key_Return", "Key_Enter"} THEN finish_target_picking(v)
    ELSE IF key = "Key_Backspace"
         THEN (IF v.target_points # <<>>
               THEN NoEmit([v EXCEPT !.target_points = SubSeq(@, 1, Len(@) - 1)])
               ELSE NoEmit(v))
    ELSE IF key = "Key_Escape" THEN cancel_target_picking(v)
    ELSE NoEmit(v)

(***************************************************************************)
(* Inputs                                                                  *)
(***************************************************************************)
\* <<itn, mag, fl, cnt>>: the values of the parameter widgets
ParamChoices ==
    { <<128, 2, 1, <<1, 1>>>>, <<0, 2, 1, <<1, 1>>>>, <<128, 1, 1, <<1, 1>>>>,
      <<128, 2, 2, <<1, 1>>>>, <<128, 2, 1, <<0, 1>>>>, <<128, 0, 1, <<1, 1>>>>,
      <<128, 2, 0, <<1, 1>>>> }
\* picked pixel lists <<u, v>>
SpotChoices == { <<>>, <<<<1, 1>>>>, <<<<0, 1>>>>, <<<<2, 1>>, <<1, 0>>>> }

VARIABLES
    cgh,          \* the CGH object shared by every caller
    call,         \* the core call made last, when the core is called directly
    task_worker,  \* CommandExecutor.task_worker: 0 is None, else the id of a TaskWorker
    workers,      \* the TaskWorker objects created so far, by id
    finished_q,   \* finished signals queued to the main thread, by sender
    gui,          \* the widgets: parameter values, progress dialog, pattern view
    quant,        \* a call of phase_to_uint made on its own
    gs,           \* a call of gerchberg_saxton_with_target made on its own: its frame
    fn,           \* a call of another function of the core made on its own
    viewer        \* the ImgViewer: obj is the widget, the rest records its last handler

coreVars == <<cgh, call>>
execVars == <<task_worker, workers, finished_q, gui>>
unitVars == <<quant, gs, fn, viewer>>
vars == <<cgh, call, task_worker, workers, finished_q, gui, quant, gs, fn, viewer>>

\* the executor as constructed (CommandExecutor.__init__, ControlPanel._setup_ui)
GuiParamsInit == <<128, 2, 1, <<1, 1>>>>
ExecInit ==
    /\ task_worker = 0
    /\ workers = <<>>
    /\ finished_q = <<>>
    /\ gui = [params |-> GuiParamsInit, dialog |-> "hidden", emitted |-> 0,
              pattern |-> None, crashed |-> "no", edits |-> 0, correction |-> "default"]
UnitInit ==
    /\ quant = [op |-> "idle"]
    /\ gs = [pc |-> "idle"]
    /\ fn = [op |-> "idle"]
    /\ viewer = [obj |-> ImgViewerInit, log |-> <<>>, last |-> [op |-> "init"]]

(***************************************************************************)
(* SpecCore: the core called directly, one call after the other.           *)
(***************************************************************************)
MaxCalls == 5
CoreInit == cgh = CGHInit /\ call = [op |-> "init", raised |-> FALSE, n |-> 0] /\ ExecInit /\ UnitInit

CallUpdateParameters ==
    \E p \in ParamChoices :
        /\ call.n < MaxCalls
        /\ cgh' = update_parameters(cgh, p[1], p[2], p[3], p[4])
        /\ call' = [op |-> "update_parameters", raised |-> FALSE, n |-> call.n + 1]
        /\ UNCHANGED <<execVars, unitVars>>
CallLoadSpotsPicked ==
    \E pts \in SpotChoices :
        /\ call.n < MaxCalls
        /\ cgh' = load_spots_picked(cgh, pts)
        /\ call' = [op |-> "load_spots_picked", raised |-> FALSE, n |-> call.n + 1]
        /\ UNCHANGED <<execVars, unitVars>>
CallLoadCorrectionPattern ==
    \E file \in Files :
        LET r == load_correction_pattern(cgh, file)
        IN  /\ call.n < MaxCalls
            /\ cgh' = r.cgh
            /\ call' = [op |-> "load_correction_pattern", raised |-> r.raised, n |-> call.n + 1]
            /\ UNCHANGED <<execVars, unitVars>>
ComputeCghReturns(r) ==
    /\ cgh' = r.cgh
    /\ call' = [op |-> "compute_cgh", raised |-> r.raised, n |-> call.n + 1]
CallComputeCgh ==
    \E cast \in Casts :
        /\ call.n < MaxCalls
        /\ ComputeCghReturns(compute_cgh(cgh, cast))
        /\ UNCHANGED <<execVars, unitVars>>

CoreNext == CallUpdateParameters \/ CallLoadSpotsPicked \/ CallLoadCorrectionPattern \/ CallComputeCgh
SpecCore == CoreInit /\ [][CoreNext]_vars

(***************************************************************************)
(* The executor (executor.py) with its worker threads (run_threads.py).    *)
(* Handlers of the main thread are atomic; a worker advances one statement *)
(* group of cgh_computation at a time, so main-thread handlers and other   *)
(* workers interleave with it.                                             *)
(***************************************************************************)
MaxWorkers == 3
\* how many times the user changes an input of the computation
MaxEdits == 2
ExecParamChoices == { GuiParamsInit, <<0, 1, 2, <<0, 1>>>>, <<128, 0, 1, <<1, 1>>>> }
ExecSpotChoices == { <<<<1, 1>>>>, <<<<2, 1>>, <<1, 0>>>> }
ExecFiles == { "ramp", "row", "missing" }
ExecCast == "wrap"

Alive == gui.crashed = "no"
\* the progress dialog is modal: while it is shown the main window takes no input
Interactive == Alive /\ gui.dialog = "hidden"
CanEdit == Interactive /\ gui.edits < MaxEdits
\* QThread.isRunning() of the object self.task_worker refers to
isRunning(w) == workers[w].st = "running"
\* TaskWorker(task=self.cgh_computation, n=1, parent=None) and start(); req
\* remembers the CGH object and the widget values of the moment of the request
TaskWorker(c, params) ==
    [st |-> "running", pc |-> "update", spots_sample |-> <<>>, raised |-> FALSE,
     deleteLater |-> FALSE, wrote |-> FALSE, out |-> None,
     req |-> [cgh |-> [c EXCEPT !.phase_spots = None, !.phase_total = None, !.phase_slm = None],
              params |-> params]]

\* ControlPanel.compute_cgh: Signal_compute_cgh -> run_cgh_computation ->
\* run_task, then show_dialog
ClickCompute ==
    /\ Interactive
    /\ IF task_worker # 0 /\ isRunning(task_worker)
       THEN UNCHANGED <<task_worker, workers>>
       ELSE /\ Len(workers) < MaxWorkers
            /\ workers' = Append(workers, TaskWorker(cgh, gui.params))
            /\ task_worker' = Len(workers) + 1
    /\ gui' = [gui EXCEPT !.dialog = "shown"]
    /\ UNCHANGED <<cgh, call, finished_q, unitVars>>

\* TaskWorker.run returns: the thread stops running, finished is queued
thread_exit(w, raised, wrote, out) ==
    /\ workers' = [workers EXCEPT ![w].st = "finished", ![w].pc = "done",
                                  ![w].raised = raised, ![w].wrote = wrote, ![w].out = out]
    /\ finished_q' = Append(finished_q, w)

\* cgh_computation line 86: update_cgh_parameters reads the widgets
WorkerUpdate(w) ==
    /\ Alive /\ isRunning(w) /\ workers[w].pc = "update"
    /\ cgh' = update_parameters(cgh, gui.params[1], gui.params[2], gui.params[3], gui.params[4])
    /\ workers' = [workers EXCEPT ![w].pc = "convert"]
    /\ UNCHANGED <<call, task_worker, finished_q, gui, unitVars>>
\* compute_cgh lines 166-168
WorkerConvert(w) ==
    /\ Alive /\ isRunning(w) /\ workers[w].pc = "convert"
    /\ LET ss == cc_spots_sample(cgh.spots_xy, cgh.geom)
       IN  IF ss.raised
           THEN thread_exit(w, TRUE, FALSE, None)
           ELSE /\ workers' = [workers EXCEPT ![w].pc = "retrieve", ![w].spots_sample = ss.spots_sample]
                /\ UNCHANGED finished_q
    /\ UNCHANGED <<cgh, call, task_worker, gui, unitVars>>
\* compute_cgh lines 169-173
WorkerRetrieve(w) ==
    /\ Alive /\ isRunning(w) /\ workers[w].pc = "retrieve"
    /\ cgh' = [cgh EXCEPT !.phase_spots = cc_phase_spots(workers[w].spots_sample, cgh.NA_obj).phase]
    /\ workers' = [workers EXCEPT ![w].pc = "total"]
    /\ UNCHANGED <<call, task_worker, finished_q, gui, unitVars>>
\* compute_cgh lines 174-175
WorkerTotal(w) ==
    /\ Alive /\ isRunning(w) /\ workers[w].pc = "total"
    /\ cgh' = [cgh EXCEPT !.phase_total = cc_phase_total(cgh.phase_spots, cgh.f_fresnel)]
    /\ workers' = [workers EXCEPT ![w].pc = "slm"]
    /\ UNCHANGED <<call, task_worker, finished_q, gui, unitVars>>
\* compute_cgh line 176, then cgh_computation and run return
WorkerSlm(w) ==
    /\ Alive /\ isRunning(w) /\ workers[w].pc = "slm"
    /\ LET sl == cc_phase_slm(cgh.correction_pattern, cgh.phase_total, ExecCast)
       IN  IF sl.raised
           THEN thread_exit(w, TRUE, FALSE, None) /\ UNCHANGED cgh
           ELSE thread_exit(w, FALSE, TRUE, sl.arr) /\ cgh' = [cgh EXCEPT !.phase_slm = sl.arr]
    /\ UNCHANGED <<call, task_worker, gui, unitVars>>

\* CommandExecutor.task_finish, run for the finished signal at the head of the
\* queue; then show_cgh_pattern through task_finished
task_finish ==
    /\ Alive /\ finished_q # <<>>
    /\ finished_q' = Tail(finished_q)
    /\ IF task_worker = 0
       THEN /\ gui' = [gui EXCEPT !.crashed = "task_finish"]
            /\ UNCHANGED <<task_worker, workers>>
       ELSE /\ task_worker' = 0
            /\ workers' = [workers EXCEPT ![task_worker].deleteLater = TRUE]
            /\ gui' = [gui EXCEPT !.dialog = "hidden", !.emitted = @ + 1, !.pattern = cgh.phase_total]
    /\ UNCHANGED <<cgh, call, unitVars>>
\* the deferred delete posted by deleteLater
DeferredDelete(w) ==
    /\ Alive /\ workers[w].deleteLater /\ workers[w].st # "deleted"
    /\ IF isRunning(w)
       THEN gui' = [gui EXCEPT !.crashed = "QThread"] /\ UNCHANGED workers
       ELSE workers' = [workers EXCEPT ![w].st = "deleted"] /\ UNCHANGED gui
    /\ UNCHANGED <<cgh, call, task_worker, finished_q, unitVars>>

\* the user dismisses the progress dialog (QDialog.reject on Esc or close)
DialogRejected ==
    /\ Alive /\ gui.dialog = "shown"
    /\ gui' = [gui EXCEPT !.dialog = "hidden"]
    /\ UNCHANGED <<cgh, call, task_worker, workers, finished_q, unitVars>>
\* the user edits the parameter widgets
EditParameters ==
    \E p \in ExecParamChoices :
        /\ CanEdit /\ p # gui.params
        /\ gui' = [gui EXCEPT !.params = p, !.edits = @ + 1]
        /\ UNCHANGED <<cgh, call, task_worker, workers, finished_q, unitVars>>
\* viewer.spots_picked -> cgh.load_spots_picked
SpotsPicked ==
    \E pts \in ExecSpotChoices :
        /\ CanEdit
        /\ cgh' = load_spots_picked(cgh, pts)
        /\ gui' = [gui EXCEPT !.edits = @ + 1]
        /\ UNCHANGED <<call, task_worker, workers, finished_q, unitVars>>
\* CommandExecutor.load_slm_correction, a slot: the exception that
\* load_correction_pattern raises leaves the slot unhandled, which ends the
\* application (PyQt calls qFatal; no excepthook is installed)
load_slm_correction ==
    \E file \in ExecFiles :
        LET r == load_correction_pattern(cgh, file)
        IN  /\ CanEdit
            /\ cgh' = r.cgh
            /\ gui' = IF r.raised
                      THEN [gui EXCEPT !.crashed = "load_slm_correction", !.edits = @ + 1,
                                       !.correction = "failed"]
                      ELSE [gui EXCEPT !.pattern = r.cgh.correction_pattern, !.edits = @ + 1,
                                       !.correction = "loaded"]
            /\ UNCHANGED <<call, task_worker, workers, finished_q, unitVars>>

\* TaskWorker.run of any started thread
WorkerStep ==
    \/ \E w \in DOMAIN workers : WorkerUpdate(w)
    \/ \E w \in DOMAIN workers : WorkerConvert(w)
    \/ \E w \in DOMAIN workers : WorkerRetrieve(w)
    \/ \E w \in DOMAIN workers : WorkerTotal(w)
    \/ \E w \in DOMAIN workers : WorkerSlm(w)
\* the event loop handles the DeferredDelete event of a thread
DeferredDeletes == \E w \in DOMAIN workers : DeferredDelete(w)
Init == cgh = CGHInit /\ call = [op |-> "init", raised |-> FALSE, n |-> 0] /\ ExecInit /\ UnitInit
Next ==
    \/ ClickCompute
    \/ WorkerStep
    \/ task_finish
    \/ DeferredDeletes
    \/ DialogRejected
    \/ EditParameters
    \/ SpotsPicked
    \/ load_slm_correction
Spec == Init /\ [][Next]_vars

(***************************************************************************)
(* phase_to_uint called on its own, on a one-cell array: every phase of    *)
(* the model in [0, 2 pi), every levels up to MaxLevels, either outcome of *)
(* the cast.                                                               *)
(***************************************************************************)
MaxLevels == 400
Cell == <<1, 1>>
CellArr(dtype, v) == Arr(Cell, dtype, LAMBDA c : v)
CallPhaseToUint ==
    \E p \in 0 .. TwoPi - 1, levels \in 1 .. MaxLevels, cast \in Casts :
        /\ quant.op = "idle"
        /\ quant' = [op |-> "phase_to_uint", phase |-> p, levels |-> levels, cast |-> cast,
                     out |-> phase_to_uint(CellArr("float64", p), levels, cast)]
        /\ UNCHANGED <<coreVars, execVars, gs, fn, viewer>>
\* the caller drops the result
QuantReturn ==
    /\ quant.op = "phase_to_uint"
    /\ quant' = [op |-> "idle"]
    /\ UNCHANGED <<coreVars, execVars, gs, fn, viewer>>
QuantNext == CallPhaseToUint \/ QuantReturn
SpecQuant == Init /\ [][QuantNext]_vars

(***************************************************************************)
(* gerchberg_saxton_with_target called on its own, statement by statement. *)
(* gs is the frame of the call; gs.done counts the statement groups of the *)
(* loop body that have been executed.                                      *)
(***************************************************************************)
MaxIters == 3
GSSpots == { cc_convert(pts, CGHInit.geom).spots_sample : pts \in SpotChoices }
GSTargets ==
    { build_target_amp_from_spots(ss, "sigma_spot", 1) : ss \in GSSpots }
        \cup { Arr(<<slm_nx, slm_ny>>, "float64", LAMBDA c : amp_one),
               Arr(<<slm_ny, slm_nx + 1>>, "float64", LAMBDA c : amp_one) }
\* seeds: none, a direct synthesis, and one with negative and multi-turn phases
GSSeeds ==
    { None,
      generate_cgh(<<<<2, 0, 0>>>>, FALSE, NA_obj_init),
      Arr(GridShape, "float64", LAMBDA c : 3 * RowMajor(c) - 5) }
\* the global numpy generator: np.random.rand draws from its state and moves
\* it on; np.random.seed sets the state.  draw is 2*pi*rand, in phase units
RngStates == 0 .. 1
\* a generator whose draws the seed does not govern
np_random_rand_unseeded(state) ==
    [draw |-> IF (state + gs.calls) % 2 = 0 THEN [c \in Grid |-> 0]
              ELSE [c \in Grid |-> (3 * RowMajor(c) + 1) % TwoPi],
     state |-> (state + 1) % 2]
np_random_rand(state) ==
    [draw |-> IF state = 0 THEN [c \in Grid |-> 0] ELSE [c \in Grid |-> (3 * RowMajor(c) + 1) % TwoPi],
     state |-> (state + 1) % 2]
\* values np.random.rand can give, in phase units
RndChoices == { np_random_rand(state).draw : state \in RngStates }
\* successive calls made with the same arguments
MaxGSCalls == 2
GSNAs == { 30, 60, 100, 140 }
NoRounds == [forward |-> 0, replace |-> 0, inverse |-> 0, constraint |-> 0]

\* a loop that makes one pass too many
range_next_inclusive(i, n_iters) == i <= n_iters
\* line 335: range(n_iters) has another element after i passes
range_next(i, n_iters) == i < n_iters

\* rng is the state of the global generator when the call is made
GSCall ==
    \E target_amp \in GSTargets, n_iters \in 0 .. MaxIters, phase_init \in GSSeeds,
       use_pupil_mask \in BOOLEAN, NA \in GSNAs, rng \in RngStates :
        /\ gs.pc = "idle"
        /\ gs' = [pc |-> "assert", target_amp |-> target_amp, n_iters |-> n_iters,
                  phase_init |-> phase_init, use_pupil_mask |-> use_pupil_mask, NA |-> NA,
                  pupil_mask |-> <<>>, phase_slm |-> <<>>, field_slm |-> <<>>,
                  field_focal |-> <<>>, i |-> 0, done |-> NoRounds, result |-> None,
                  rng |-> rng, rng_at_call |-> rng, calls |-> 1,
                  last |-> [rng |-> rng, result |-> None]]
        /\ UNCHANGED <<coreVars, execVars, quant, fn, viewer>>
\* the caller calls again with the same arguments, after np.random.seed with
\* the seed of the call before (reseed) or with the generator as it stands
GSRepeat ==
    \E reseed \in BOOLEAN :
        /\ gs.pc = "returned" /\ gs.calls < MaxGSCalls
        /\ gs' = [gs EXCEPT !.pc = "assert", !.pupil_mask = <<>>, !.phase_slm = <<>>,
                            !.field_slm = <<>>, !.field_focal = <<>>, !.i = 0,
                            !.done = NoRounds, !.result = None,
                            !.rng = IF reseed THEN gs.rng_at_call ELSE gs.rng,
                            !.rng_at_call = IF reseed THEN gs.rng_at_call ELSE gs.rng,
                            !.calls = @ + 1,
                            !.last = [rng |-> gs.rng_at_call, result |-> gs.result]]
        /\ UNCHANGED <<coreVars, execVars, quant, fn, viewer>>
\* lines 318-319
GSAssert ==
    /\ gs.pc = "assert"
    /\ gs' = [gs EXCEPT !.pc = IF gs_shape_ok(gs.target_amp) THEN "mask" ELSE "raised"]
    /\ UNCHANGED <<coreVars, execVars, quant, fn, viewer>>
\* lines 321-326
GSMask ==
    /\ gs.pc = "mask"
    /\ gs' = [gs EXCEPT !.pc = "init", !.pupil_mask = gs_pupil_mask(gs.use_pupil_mask, gs.NA)]
    /\ UNCHANGED <<coreVars, execVars, quant, fn, viewer>>
\* lines 328-333
GSPhaseInit ==
    /\ gs.pc = "init"
    /\ gs' = [gs EXCEPT !.pc = "for",
                        !.phase_slm = gs_phase_init(gs.phase_init, np_random_rand(gs.rng).draw),
                        !.field_slm = gs_field_slm(gs_phase_init(gs.phase_init, np_random_rand(gs.rng).draw),
                                                   gs.pupil_mask),
                        !.rng = IF gs.phase_init = None THEN np_random_rand(gs.rng).state ELSE @]
    /\ UNCHANGED <<coreVars, execVars, quant, fn, viewer>>
\* line 335
GSFor ==
    /\ gs.pc = "for"
    /\ gs' = [gs EXCEPT !.pc = IF range_next(gs.i, gs.n_iters) THEN "forward" ELSE "wrap"]
    /\ UNCHANGED <<coreVars, execVars, quant, fn, viewer>>
\* lines 336-337
GSForward ==
    /\ gs.pc = "forward"
    /\ gs' = [gs EXCEPT !.pc = "replace", !.field_focal = gs_forward(gs.field_slm),
                        !.done.forward = @ + 1]
    /\ UNCHANGED <<coreVars, execVars, quant, fn, viewer>>
\* lines 339-340
GSReplace ==
    /\ gs.pc = "replace"
    /\ gs' = [gs EXCEPT !.pc = "inverse", !.field_focal = gs_replace(gs.field_focal, gs.target_amp),
                        !.done.replace = @ + 1]
    /\ UNCHANGED <<coreVars, execVars, quant, fn, viewer>>
\* lines 342-343
GSInverse ==
    /\ gs.pc = "inverse"
    /\ gs' = [gs EXCEPT !.pc = "constraint", !.field_slm = gs_inverse(gs.field_focal),
                        !.done.inverse = @ + 1]
    /\ UNCHANGED <<coreVars, execVars, quant, fn, viewer>>
\* lines 345-346, and the loop variable moves on
GSConstraint ==
    /\ gs.pc = "constraint"
    /\ LET phase_slm == gs_angle(gs.field_slm)
       IN  gs' = [gs EXCEPT !.pc = "for", !.phase_slm = phase_slm,
                            !.field_slm = gs_field_slm(phase_slm, gs.pupil_mask),
                            !.i = @ + 1, !.done.constraint = @ + 1]
    /\ UNCHANGED <<coreVars, execVars, quant, fn, viewer>>
\* lines 348-349
GSReturn ==
    /\ gs.pc = "wrap"
    /\ LET phase_slm == gs_wrap(gs.phase_slm)
       IN  gs' = [gs EXCEPT !.pc = "returned", !.phase_slm = phase_slm,
                            !.result = Arr(GridShape, "float64", LAMBDA c : phase_slm[c])]
    /\ UNCHANGED <<coreVars, execVars, quant, fn, viewer>>

GSStep ==
    \/ GSAssert \/ GSMask \/ GSPhaseInit \/ GSFor
    \/ GSForward \/ GSReplace \/ GSInverse \/ GSConstraint \/ GSReturn
GSNext == GSCall \/ GSStep \/ GSRepeat
SpecGS == Init /\ [][GSNext]_vars

(***************************************************************************)
(* SpecFn: generate_cgh, build_target_amp_from_spots, pixels_to_sample and *)
(* pupil_radius_obj called on their own, over small sets of arguments.     *)
(***************************************************************************)
\* spots <<x0, y0, z0>> in sample units: on and off the nodes of the sample
\* grid, with and without an axial offset
FnSpots == { <<0, 0, 0>>, <<0 - 1, 0, 0>>, <<1, 0 - 1, 0>>, <<1, 1, 1>>, <<0, 0, 2>> }
FnSpotLists ==
    { <<>> } \cup { <<a>> : a \in FnSpots } \cup { <<a, b>> : a, b \in FnSpots }
        \cup { << <<0, 0, 0>>, <<0, 0, 0>>, <<0 - 1, 0, 0>> >> }
\* weights: None, or one complex number per spot
FnWeights == { <<1, 0>>, <<0, 1>>, <<0 - 2, 0>> }
FnWeightLists(n) == { [is_none |-> TRUE, w |-> <<>>] } \cup { [is_none |-> FALSE, w |-> w] : w \in [1 .. n -> FnWeights] }
FnGeoms == { [mag_total |-> m, u0 |-> u0, v0 |-> v0] : m \in 0 .. 2, u0 \in 0 .. 2, v0 \in 0 .. 1 }
\* NA and n in the same unit; the last pairs have NA / n between 0.999999 and 1
FnNAs == { 1, 100, 132, 133, 140, 999999, 1000000, 1999999, 2000000, 2000001 }
FnNs == { 100, 133, 1000000, 2000001 }

\* generate_cgh(spots_sample, weights, include_defocus): field is the complex
\* field of line 228, out the phase returned
CallGenerateCgh ==
    \E spots \in FnSpotLists, include_defocus \in BOOLEAN, NA \in GSNAs :
        \E weights \in FnWeightLists(Len(spots)) :
            /\ fn.op = "idle"
            /\ fn' = [op |-> "generate_cgh", spots |-> spots, weights |-> weights,
                      include_defocus |-> include_defocus, NA |-> NA,
                      field |-> IF weights.is_none
                                THEN Eager(cgh_field(spots, include_defocus, NA))
                                ELSE Eager(cgh_field_weighted(spots, weights.w, include_defocus, NA)),
                      out |-> IF weights.is_none
                              THEN generate_cgh(spots, include_defocus, NA)
                              ELSE cgh_angle(Eager(cgh_field_weighted(spots, weights.w, include_defocus, NA)))]
            /\ UNCHANGED <<coreVars, execVars, quant, gs, viewer>>
CallBuildTarget ==
    \E spots \in FnSpotLists, sigma \in {"None", "sigma_spot"}, amp_per_spot \in 1 .. 2 :
        /\ fn.op = "idle"
        /\ fn' = [op |-> "build_target_amp_from_spots", spots |-> spots, sigma |-> sigma,
                  amp_per_spot |-> amp_per_spot,
                  out |-> build_target_amp_from_spots(spots, sigma, amp_per_spot)]
        /\ UNCHANGED <<coreVars, execVars, quant, gs, viewer>>
CallPixelsToSample ==
    \E geom \in FnGeoms, u \in 0 .. 2, v \in 0 .. 1 :
        /\ fn.op = "idle"
        /\ fn' = [op |-> "pixels_to_sample", geom |-> geom, u |-> u, v |-> v,
                  out |-> pixels_to_sample(geom, u, v)]
        /\ UNCHANGED <<coreVars, execVars, quant, gs, viewer>>
\* pupil_radius_obj lines 63-68: na_rel is the ratio used in line 68, and
\* radicand has the sign of 1.0 - na_rel ** 2
CallPupilRadiusObj ==
    \E NA \in FnNAs, n \in FnNs :
        /\ fn.op = "idle"
        /\ fn' = [op |-> "pupil_radius_obj", NA |-> NA, n |-> n, na_rel |-> na_rel_of(NA, n),
                  radicand |-> na_rel_of(NA, n)[2] - na_rel_of(NA, n)[1]]
        /\ UNCHANGED <<coreVars, execVars, quant, gs, viewer>>
\* the caller drops the result
FnReturn ==
    /\ fn.op # "idle"
    /\ fn' = [op |-> "idle"]
    /\ UNCHANGED <<coreVars, execVars, quant, gs, viewer>>
FnNext == CallGenerateCgh \/ CallBuildTarget \/ CallPixelsToSample \/ CallPupilRadiusObj \/ FnReturn
SpecFn == Init /\ [][FnNext]_vars

(***************************************************************************)
(* SpecPick: the handlers of the ImgViewer called one after the other,     *)
(* spots_picked connected to CGH.load_spots_picked (executor.py line 42).  *)
(* viewer.log lists, since the last start_target_picking, the pixel of     *)
(* every left-click made on the image while picking and a "pop" for every  *)
(* Backspace pressed while picking; viewer.last tells what the last        *)
(* handler was given and whether it emitted or changed anything.           *)
(***************************************************************************)
\* clicks and Backspaces logged in one picking
MaxPickEvents == 3
PickImages == { Arr(<<1, 2>>, "uint8", LAMBDA c : 0), Arr(<<2, 2>>, "uint8", LAMBDA c : 0) }
PickClicks ==
    { [button |-> "LeftButton", in_view |-> TRUE, x |-> p[1], y |-> p[2]] :
          p \in { <<1, 1>>, <<7, 1>>, <<1, 5>>, <<8, 0>>, <<0 - 1, 0>> } }
        \cup { [button |-> "LeftButton", in_view |-> FALSE, x |-> 1, y |-> 1],
               [button |-> "RightButton", in_view |-> TRUE, x |-> 1, y |-> 1],
               [button |-> "MiddleButton", in_view |-> TRUE, x |-> 1, y |-> 1] }
PickKeys == { "Key_Return", "Key_Enter", "Key_Backspace", "Key_Escape", "Key_A" }
\* the slot connected to spots_picked runs when the handler emitted
deliver(c, r) == IF r.emit THEN load_spots_picked(c, r.pts) ELSE c
\* what the last handler did
observed(op, arg, v, r) ==
    [op |-> op, arg |-> arg, enabled |-> v.picking_enabled, has_img |-> v.target_img # None,
     emit |-> r.emit, spots_same |-> deliver(cgh, r) = cgh,
     points_same |-> r.obj.target_points = v.target_points]
\* a left-click on the image: inside the view box and inside the image
OnImage(v, ev) ==
    /\ ev.button = "LeftButton" /\ ev.in_view /\ v.target_img # None
    /\ 0 <= ev.x /\ ev.x < 4 * v.target_img.shape[2]
    /\ 0 <= ev.y /\ ev.y < 4 * v.target_img.shape[1]
PickReturns(r, log, last) ==
    /\ viewer' = [obj |-> r.obj, log |-> log, last |-> last]
    /\ cgh' = deliver(cgh, r)
    /\ UNCHANGED <<call, execVars, quant, gs, fn>>
SetTargetImage ==
    \E img2d \in PickImages :
        LET r == NoEmit(set_target_image(viewer.obj, img2d))
        IN  /\ r.obj.target_img = img2d
            /\ PickReturns(r, viewer.log, observed("set_target_image", "", viewer.obj, r))
StartTargetPicking ==
    LET r == NoEmit(start_target_picking(viewer.obj))
    IN  /\ r.obj.picking_enabled
        /\ PickReturns(r, <<>>, observed("start_target_picking", "", viewer.obj, r))
MouseClicked ==
    \E ev \in PickClicks :
        LET logged == viewer.obj.picking_enabled /\ OnImage(viewer.obj, ev)
        IN  /\ logged => Len(viewer.log) < MaxPickEvents
            /\ PickReturns(on_target_mouse_clicked(viewer.obj, ev),
                           IF logged THEN Append(viewer.log, [kind |-> "click", px |-> <<py_round(ev.x), py_round(ev.y)>>])
                           ELSE viewer.log,
                           observed("click", ev.button, viewer.obj, on_target_mouse_clicked(viewer.obj, ev)))
KeyPressed ==
    \E key \in PickKeys :
        LET logged == viewer.obj.picking_enabled /\ key = "Key_Backspace"
        IN  /\ logged => Len(viewer.log) < MaxPickEvents
            /\ PickReturns(eventFilter(viewer.obj, key),
                           IF logged THEN Append(viewer.log, [kind |-> "pop", px |-> <<0, 0>>]) ELSE viewer.log,
                           observed("key", key, viewer.obj, eventFilter(viewer.obj, key)))
PickNext == SetTargetImage \/ StartTargetPicking \/ MouseClicked \/ KeyPressed
SpecPick == Init /\ [][PickNext]_vars

(***************************************************************************)
(* Properties of CGH.compute_cgh, under SpecCore                           *)
(***************************************************************************)
Computed == call.op = "compute_cgh" /\ ~call.raised
\* the quantized level of the stored phase_total (0 .. correction_value, so
\* the cast to uint8 keeps it)
QuantLevel(c) == RoundHalfEven(correction_value * cgh.phase_total.data[c], TwoPi)
Wrapped(arr) == \A c \in DOMAIN arr.data : arr.data[c] # NaN /\ 0 <= arr.data[c] /\ arr.data[c] < TwoPi

\* C3: after compute_cgh with a grid-shaped correction buffer, every cell of
\* the stored hologram is (q + c) mod 256 for the quantized phase level q and
\* the correction byte c, both in 0 .. 255: no saturation, no widening.
C3_CorrectionWraps ==
    (Computed /\ cgh.correction_pattern.shape = GridShape /\ Wrapped(cgh.phase_total)) =>
        \A c \in Grid :
            /\ QuantLevel(c) \in 0 .. 255
            /\ cgh.correction_pattern.data[c] \in 0 .. 255
            /\ cgh.phase_slm.data[c] = (QuantLevel(c) + cgh.correction_pattern.data[c]) % 256
            /\ cgh.phase_slm.data[c] \in 0 .. 255
C3_Witness ==
    /\ Computed /\ cgh.correction_pattern.shape = GridShape /\ Wrapped(cgh.phase_total)
    /\ \E c \in Grid :
        /\ QuantLevel(c) + cgh.correction_pattern.data[c] >= 256
        /\ cgh.phase_slm.data[c] = QuantLevel(c) + cgh.correction_pattern.data[c] - 256

\* the converted spots, seed and target of the CGH object as it stands
SpotsOf(c) == cc_convert(c.spots_xy.pts, c.geom).spots_sample
SeedOf(c) == generate_cgh(SpotsOf(c), FALSE, c.NA_obj)
TargetOf(c) == build_target_amp_from_spots(SpotsOf(c), "sigma_spot", 1)

\* C5: the compute_cgh that follows update_parameters(itn, mag, fl, cnt) runs
\* the retrieval loop itn times: the stored phase_spots is the retrieval of
\* the converted spots after self.itn passes.
C5_ItnConsumed ==
    Computed =>
        cgh.phase_spots =
            gerchberg_saxton_with_target(TargetOf(cgh), cgh.itn, SeedOf(cgh), TRUE, cgh.NA_obj, <<>>).phase

\* C6: compute_cgh stores correction +(mod 256) quantize((GS(target, seed) +
\* lens) mod 2 pi): seed is the synthesis of the converted spots without
\* defocus, target is built from the same spots, the retrieval enforces the
\* pupil, the lens is added after the retrieval, the sum is wrapped before
\* it is quantized, and the correction is added after the quantization.
C6_Retrieved ==
    gerchberg_saxton_with_target(TargetOf(cgh), GS_ITERS, SeedOf(cgh), TRUE, cgh.NA_obj, <<>>).phase
C6_Level(c) ==
    LET sum == FAdd(C6_Retrieved.data[c], generate_fresnel_lens_phase(cgh.f_fresnel).data[c])
    IN  astype_uint8(np_round_level(ModTwoPi(sum), correction_value), "wrap")
C9_WrapInvariant ==
    Computed =>
        /\ Wrapped(SeedOf(cgh))
        /\ Wrapped(cgh.phase_spots)
        /\ Wrapped(generate_fresnel_lens_phase(cgh.f_fresnel))
        /\ Wrapped(cgh.phase_total)

(***************************************************************************)
(* Properties of phase_to_uint, under SpecQuant                            *)
(***************************************************************************)
Quantized == quant.op = "phase_to_uint"
\* round(levels * p / (2 pi)) as np.round gives it
C4_Level == RoundHalfEven(quant.levels * quant.phase, TwoPi)
QuantOut == quant.out.data[<<0, 0>>]

\* C4 as stated: for every p in [0, 2 pi) and every levels >= 1, phase_to_uint
\* returns round(levels * p / (2 pi)), an integer in [0, levels].
C4_AsStated == Quantized => (QuantOut = C4_Level /\ QuantOut \in 0 .. quant.levels)
\* C4: for every p in [0, 2 pi) and every levels >= 1, phase_to_uint returns
\* an 8-bit integer in [0, levels]; it is round(levels * p / (2 pi)) whenever
\* that level is at most 255, so for every levels <= 255.
C4_Quantization ==
    Quantized =>
        /\ QuantOut \in 0 .. quant.levels
        /\ QuantOut \in 0 .. 255
        /\ C4_Level \in 0 .. quant.levels
        /\ (C4_Level <= 255 => QuantOut = C4_Level)
        /\ (quant.levels <= 255 => QuantOut = C4_Level)
C4_Witness == Quantized /\ quant.levels > 255 /\ C4_Level > 255 /\ QuantOut # C4_Level

(***************************************************************************)
(* Properties of gerchberg_saxton_with_target, under SpecGS                *)
(***************************************************************************)
GSCalled == gs.pc # "idle"
GSRounds(n) == [forward |-> n, replace |-> n, inverse |-> n, constraint |-> n]
\* within a round the four steps come in source order, and i counts the rounds
GSOrder ==
    GSCalled =>
        /\ gs.done.constraint = gs.i
        /\ gs.i <= gs.n_iters
        /\ gs.done = CASE gs.pc = "replace" -> [GSRounds(gs.i) EXCEPT !.forward = gs.i + 1]
                       [] gs.pc = "inverse" -> [GSRounds(gs.i) EXCEPT !.forward = gs.i + 1, !.replace = gs.i + 1]
                       [] gs.pc = "constraint" -> [GSRounds(gs.i + 1) EXCEPT !.constraint = gs.i]
                       [] OTHER -> GSRounds(gs.i)
GSExact == (GSCalled /\ gs.pc = "returned") => gs.done = GSRounds(gs.n_iters)

\* C7: called with n >= 0, gerchberg_saxton_with_target performs exactly n
\* rounds (forward transform, magnitude replacement, inverse transform,
\* phase-only constraint, in that order) and then returns, for every target
\* and seed: until the return the call always has a next step, i never
\* passes n, and no exit happens before round n is complete.
GSRunning == GSCalled /\ gs.pc \notin {"returned", "raised"}
C7_FixedRounds == GSOrder /\ GSExact /\ (GSRunning => ENABLED GSStep)
C7_Witness == GSCalled /\ gs.pc = "returned" /\ gs.n_iters = MaxIters /\ gs.done = GSRounds(MaxIters)

\* C8: with n_iters = 0 and a seed p, the call returns p wrapped into
\* [0, 2 pi) in every cell, whatever the target, the mask and the aperture.
C8_ZeroIterations ==
    (GSCalled /\ gs.pc = "returned" /\ gs.n_iters = 0 /\ gs.phase_init # None) =>
        /\ gs.result.shape = GridShape
        /\ \A c \in Grid : gs.result.data[c] = PyMod(gs.phase_init.data[c], TwoPi)
\* a zero-iteration call with the mask on, a cell outside the aperture whose
\* seed is not zero, and a target that is not zero
C8_Witness ==
    /\ GSCalled /\ gs.pc = "returned" /\ gs.n_iters = 0 /\ gs.phase_init # None
    /\ gs.use_pupil_mask
    /\ \E c \in Grid : gs.pupil_mask[c] = 0 /\ gs.result.data[c] # 0
    /\ \E c \in Grid : gs.target_amp.data[c] # 0

\* C10: when the target's shape differs from the grid's, the call fails at
\* the check: no mask is built, no phase initialised, no transform executed,
\* no result produced.
C10_ShapeValidation ==
    (GSCalled /\ gs.target_amp.shape # GridShape) =>
        /\ gs.pc \in {"assert", "raised"}
        /\ gs.pupil_mask = <<>> /\ gs.phase_slm = <<>> /\ gs.field_slm = <<>>
        /\ gs.field_focal = <<>> /\ gs.done = GSRounds(0) /\ gs.result = None
C10_Witness == GSCalled /\ gs.target_amp.shape # GridShape /\ gs.pc = "raised"

(***************************************************************************)
(* Properties of the executor, under Spec                                  *)
(***************************************************************************)
Running == {w \in DOMAIN workers : isRunning(w)}
\* C1: a compute request issued while a worker runs is dropped, so at most
\* one compute worker is running in every reachable state.
C1_SingleFlight == Cardinality(Running) <= 1

\* what cgh_computation gives when nothing else touches the CGH object or the
\* widgets between the request and the end of the computation
request_result(req) ==
    compute_cgh(update_parameters(req.cgh, req.params[1], req.params[2], req.params[3], req.params[4]),
                ExecCast)
\* C2: the result of a computation equals the result computed from the values
\* its inputs had when the request started, whatever the interactive layer
\* writes meanwhile (stated for a computation that runs alone).
C2_Snapshot ==
    (Len(workers) = 1 /\ workers[1].pc = "done") =>
        /\ workers[1].raised = request_result(workers[1].req).raised
        /\ workers[1].wrote => workers[1].out = request_result(workers[1].req).cgh.phase_slm

(***************************************************************************)
(* Further properties of the core, under SpecCore                          *)
(***************************************************************************)
AllZero(arr) == \A c \in DOMAIN arr.data : arr.data[c] = 0
HasNoSpots(c) == c.spots_xy.is_none \/ c.spots_xy.pts = <<>>

\* C11: a target whose accumulated maximum is zero (no spots) is returned all
\* zero, without normalization, and a compute_cgh made in a state with no
\* spots returns without raising and stores a hologram.
C11_NoSpots ==
    /\ AllZero(build_target_amp_from_spots(<<>>, "sigma_spot", 1))
    /\ (call.op = "compute_cgh" /\ HasNoSpots(cgh)) =>
          /\ ~call.raised
          /\ cgh.phase_slm # None

\* C12: whatever load_correction_pattern, update_parameters and compute_cgh
\* calls were made, the correction buffer has the shape of the device grid.
C12_CorrectionShape == cgh.correction_pattern.shape = GridShape

(***************************************************************************)
(* Further properties of the executor, under Spec                          *)
(***************************************************************************)
ZeroCorrection == Arr(GridShape, "uint8", LAMBDA c : 0)

\* C13: before any correction pattern is loaded the buffer is all zeros and
\* the hologram is the quantized phase; a load that fails is reported to the
\* caller and leaves the buffer as it was, and a compute request made
\* afterwards still completes with that buffer: the application goes on.
C13_LoadFailure ==
    /\ gui.correction = "default" =>
          /\ cgh.correction_pattern = ZeroCorrection
          /\ (Len(workers) = 1 /\ workers[1].wrote) =>
                workers[1].out = phase_to_uint(cgh.phase_total, correction_value, ExecCast)
    /\ gui.correction = "failed" =>
          /\ cgh.correction_pattern \in {ZeroCorrection} \cup {FileImage(f) : f \in ExecFiles \ {"missing"}}
          /\ Alive

(***************************************************************************)
(* Further properties of gerchberg_saxton_with_target, under SpecGS        *)
(***************************************************************************)
GSRepeated == GSCalled /\ gs.pc = "returned" /\ gs.calls > 1

r2_pupil(c) ==
    (slm_x(c[2]) \div pupil_mag) * (slm_x(c[2]) \div pupil_mag)
        + (slm_y(c[1]) \div pupil_mag) * (slm_y(c[1]) \div pupil_mag)
\* the sum of the spots' contributions at a grid point, before the mask
FieldSum(c) ==
    IF fn.weights.is_none
    THEN CSum(Len(fn.spots), LAMBDA m : CExp(cgh_phi(fn.spots[m + 1], c, fn.include_defocus)))
    ELSE CSum(Len(fn.spots),
              LAMBDA m : CMul(fn.weights.w[m + 1], CExp(cgh_phi(fn.spots[m + 1], c, fn.include_defocus))))
\* C15: in generate_cgh, for every spot list and weights, the complex field
\* before angle extraction is exactly zero at every grid point whose pupil
\* radius exceeds pupil_radius_slm, and at every other grid point it is the
\* sum of the spots' contributions times a mask factor of exactly one.
C15_ApertureZeroing ==
    fn.op = "generate_cgh" =>
        \A c \in Grid :
            /\ ~InPupil(r2_pupil(c), fn.NA) => fn.field[c] = <<0, 0>>
            /\ InPupil(r2_pupil(c), fn.NA) => fn.field[c] = CScale(1, FieldSum(c))
\* weighted spots whose sum is not zero at a point outside the aperture, where
\* the field is zero, and not zero at a point inside, where the field is the sum
C15_Witness ==
    /\ fn.op = "generate_cgh" /\ ~fn.weights.is_none /\ Len(fn.spots) = 2
    /\ \E c \in Grid : ~InPupil(r2_pupil(c), fn.NA) /\ FieldSum(c) # <<0, 0>> /\ fn.field[c] = <<0, 0>>
    /\ \E c \in Grid : InPupil(r2_pupil(c), fn.NA) /\ fn.field[c] = FieldSum(c) /\ fn.field[c] # <<0, 0>>

\* NA / n <= 0.999999, for 0 < NA and 0 < n <= 2 * 10^9 (no product above 2^31)
AtMostClamp(NA, n) == NA < n /\ (n - NA > 2000 \/ (n - NA) * 1000000 >= n)
\* C16 as stated: the ratio r used in the objective pupil radius equals
\* min(NA / n, 0.999999) for every NA > 0 and n > 0, so r never exceeds
\* 0.999999.
C16_AsStated ==
    fn.op = "pupil_radius_obj" =>
        fn.na_rel = IF AtMostClamp(fn.NA, fn.n) THEN <<fn.NA, fn.n>> ELSE <<999999, 1000000>>
\* C16: the ratio r used in the objective pupil radius equals NA / n when
\* NA / n < 1 and 0.999999 when NA / n >= 1, for every NA > 0 and n > 0; so r
\* is positive and below 1, the radicand 1 - r^2 is positive, and a
\* degenerate NA (>= n) is clamped.
C16_Clamp ==
    fn.op = "pupil_radius_obj" =>
        /\ fn.NA < fn.n => fn.na_rel = <<fn.NA, fn.n>>
        /\ fn.NA >= fn.n => fn.na_rel = <<999999, 1000000>>
        /\ 0 < fn.na_rel[1] /\ fn.na_rel[1] < fn.na_rel[2]
        /\ fn.radicand > 0
\* a degenerate NA, above the medium index, was clamped
C16_Witness ==
    /\ fn.op = "pupil_radius_obj" /\ fn.NA > fn.n
    /\ fn.na_rel = <<999999, 1000000>> /\ fn.radicand > 0

\* a spot lies on the node c of the sample grid
OnNode(spot, c) == dist2(c, spot) = 0
\* the number of spots of the call whose nearest cell is c
NearestCount(c) == Cardinality({ m \in 1 .. Len(fn.spots) : argmin_dist2(fn.spots[m]) = c })
MaxNearestCount == CHOOSE k \in { NearestCount(c) : c \in Grid } : \A c \in Grid : NearestCount(c) <= k
\* C17: build_target_amp_from_spots with sigma unset and exactly one spot on a
\* grid node returns an array whose only nonzero entry is at that node and is
\* 1.0; with several spots each cell holds the number of spots nearest to it
\* (coincident spots sum) divided by the largest such number, so every entry
\* is in [0, 1] and the maximum is 1.
C17_SinglePixel ==
    (fn.op = "build_target_amp_from_spots" /\ fn.sigma = "None") =>
        /\ fn.out.shape = GridShape
        /\ \A c \in Grid :
              /\ (Len(fn.spots) = 1 /\ OnNode(fn.spots[1], c)) =>
                    \A d \in Grid : fn.out.data[d] = IF d = c THEN amp_one ELSE 0
              /\ Len(fn.spots) > 0 => fn.out.data[c] = (NearestCount(c) * amp_one) \div MaxNearestCount
              /\ 0 <= fn.out.data[c] /\ fn.out.data[c] <= amp_one
        /\ Len(fn.spots) > 0 => \E c \in Grid : fn.out.data[c] = amp_one
\* three spots, two of them coincident: their cell holds 1.0 and the cell of
\* the third holds one half
C17_Witness ==
    /\ fn.op = "build_target_amp_from_spots" /\ fn.sigma = "None" /\ Len(fn.spots) = 3
    /\ \E c, d \in Grid :
          /\ NearestCount(c) = 2 /\ fn.out.data[c] = amp_one
          /\ NearestCount(d) = 1 /\ fn.out.data[d] = amp_one \div 2
\* one spot on a node: the only nonzero entry is 1.0 at that node
C17_WitnessOne ==
    /\ fn.op = "build_target_amp_from_spots" /\ fn.sigma = "None" /\ Len(fn.spots) = 1
    /\ \E c \in Grid : OnNode(fn.spots[1], c) /\ fn.out.data[c] = amp_one

\* C18: a picked pixel equal to the image center (u0, v0) converts to the
\* sample coordinate (0, 0), and generate_cgh for that single spot with zero
\* axial offset returns the phase 0 at every grid point inside the pupil
\* aperture, with or without include_defocus.
C18_CenteredSpot ==
    /\ (fn.op = "pixels_to_sample" /\ fn.u = fn.geom.u0 /\ fn.v = fn.geom.v0) =>
          /\ ~fn.out.raised
          /\ fn.out.x0 = 0 /\ fn.out.y0 = 0
    /\ (fn.op = "generate_cgh" /\ fn.spots = << <<0, 0, 0>> >> /\ fn.weights.is_none) =>
          \A c \in Grid : InPupil(slm_r2(c), fn.NA) => fn.out.data[c] = 0

(***************************************************************************)
(* Further properties of the executor, under Spec                          *)
(***************************************************************************)
Queued == { finished_q[k] : k \in DOMAIN finished_q }
\* C19: task_finish releases the worker whose finished signal it handles: in
\* every interleaving of compute requests, worker completion and delivery of
\* the queued finished signal, a worker scheduled for deletion is not running
\* and its finished signal has been delivered, and task_finish never runs
\* with task_worker equal to None.
C19_HandOver ==
    /\ \A w \in DOMAIN workers :
          workers[w].deleteLater => ~isRunning(w) /\ w \notin Queued
    /\ gui.crashed # "task_finish"

\* the workers whose finished signal has been delivered to task_finish
Delivered == { w \in DOMAIN workers : workers[w].pc = "done" /\ w \notin Queued }
\* C20: every accepted compute request leads to exactly one task_finish,
\* which resets task_worker, closes the progress dialog and emits
\* task_finished once, and afterwards requests are accepted again: there is
\* one completed task_finish for each delivered finished signal, and the
\* executor is never stopped for good by a failing task_finish or by the
\* deletion of a running worker.
C20_Completion ==
    /\ gui.emitted = Cardinality(Delivered)
    /\ gui.crashed \notin {"task_finish", "QThread"}

(***************************************************************************)
(* Consistency of the stored results, under SpecCore                       *)
(***************************************************************************)
\* the correction buffers the program can hold
Corrections == {ZeroCorrection} \cup { FileImage(f) : f \in Files \ {"missing"} }
\* phase_slm is the hologram line 176 makes of phase_total
SlmOfTotal(c) ==
    \E corr \in Corrections, cast \in Casts :
        LET sl == cc_phase_slm(corr, c.phase_total, cast)
        IN  ~sl.raised /\ c.phase_slm = sl.arr
\* C21: after any sequence of successful and failing compute requests the
\* stored phase_spots, phase_total and phase_slm come from the same request:
\* either none of them is set, or all are and phase_slm is correction
\* +(mod 256) quantize(phase_total); a request that fails part-way leaves
\* them as they were.
C21_Consistency ==
    \/ cgh.phase_spots = None /\ cgh.phase_total = None /\ cgh.phase_slm = None
    \/ /\ cgh.phase_spots # None /\ cgh.phase_total # None /\ cgh.phase_slm # None
       /\ SlmOfTotal(cgh)

(***************************************************************************)
(* Properties of the ImgViewer, under SpecPick                             *)
(***************************************************************************)
\* the list the logged clicks and Backspaces make: a click adds its pixel at
\* the end, a Backspace removes the last point that remains
RECURSIVE PickedOf(_)
PickedOf(log) ==
    IF log = <<>> THEN <<>>
    ELSE LET before == PickedOf(SubSeq(log, 1, Len(log) - 1))
             e == log[Len(log)]
         IN  IF e.kind = "click" THEN Append(before, e.px)
             ELSE IF before = <<>> THEN <<>>
             ELSE SubSeq(before, 1, Len(before) - 1)
IsFinish(l) ==
    \/ l.op = "key" /\ l.arg \in {"Key_Return", "Key_Enter"} /\ l.enabled
    \/ l.op = "click" /\ l.arg = "RightButton" /\ l.enabled /\ l.has_img
\* C22: the list handed to the core by spots_picked is the sequence of the
\* accepted left-clicks since the last start_target_picking, in click order,
\* each Backspace having removed the most recent remaining point; it is
\* handed over on finish (Enter, Return or right-click) and only then;
\* Escape delivers nothing and leaves the core's spot list as it was; a click
\* while picking is disabled or no target image is set adds no point.
C22_Delivery ==
    /\ viewer.obj.target_points = PickedOf(viewer.log)
    /\ viewer.last.op # "init" =>
          /\ viewer.last.emit <=> IsFinish(viewer.last)
          /\ viewer.last.emit => cgh.spots_xy = [is_none |-> FALSE, pts |-> PickedOf(viewer.log)]
          /\ ~viewer.last.emit => viewer.last.spots_same
          /\ (viewer.last.op = "key" /\ viewer.last.arg = "Key_Escape") =>
                ~viewer.last.emit /\ viewer.last.spots_same
          /\ (viewer.last.op = "click" /\ (~viewer.last.enabled \/ ~viewer.last.has_img)) =>
                viewer.last.points_same
\* two clicks, a Backspace, then a finish that hands over the first click only
C22_Witness ==
    /\ Len(viewer.log) = 3 /\ viewer.log[1].kind = "click" /\ viewer.log[2].kind = "click"
    /\ viewer.log[2].px # viewer.log[1].px /\ viewer.log[3].kind = "pop"
    /\ viewer.last.op = "key" /\ viewer.last.emit /\ ~viewer.last.spots_same
    /\ cgh.spots_xy.pts = <<viewer.log[1].px>>
\* Escape after a click, with a spot list loaded before: nothing is delivered
C22_WitnessCancel ==
    /\ viewer.last.op = "key" /\ viewer.last.arg = "Key_Escape" /\ viewer.last.enabled
    /\ viewer.obj.target_points # <<>> /\ ~cgh.spots_xy.is_none
    /\ cgh.spots_xy.pts # viewer.obj.target_points

\* C23: every (u, v) appended to target_points by a left-click satisfies
\* 0 <= u < w and 0 <= v < h, (h, w) being the shape of the target image.
C23_InsideImage ==
    (viewer.last.op = "click" /\ viewer.last.arg = "LeftButton" /\ ~viewer.last.points_same) =>
        LET p == viewer.obj.target_points[Len(viewer.obj.target_points)]
        IN  /\ 0 <= p[1] /\ p[1] < viewer.obj.target_img.shape[2]
            /\ 0 <= p[2] /\ p[2] < viewer.obj.target_img.shape[1]
====
